---- MODULE Spec2Model ----
(***************************************************************************)
(* Call dialogue state machine of the dental front-desk voice assistant    *)
(* (src/app.js): the session store, the extraction call agentReply and the *)
(* four Twilio webhooks /voice/initial, /voice/after-transfer-attempt,     *)
(* /voice/gather and /voice/handle.                                        *)
(*                                                                         *)
(* Text (caller speech, the extraction service's reply) is a sequence of   *)
(* tokens.  A reply token is a blank, a prose word, a brace, the literal   *)
(* null, a member key or a string literal, so that trim, indexOf,          *)
(* lastIndexOf, slice and JSON.parse are computed as the code computes     *)
(* them (member separators are left implicit).                             *)
(***************************************************************************)
EXTENDS Integers, Sequences, FiniteSets, TLC

(* ------------------------------ bounds -------------------------------- *)

\* longest service reply enumerated exhaustively for agentReply
MaxReplyLen == 3
\* longest SpeechResult, in characters
MaxSpeechLen == 2
\* handle requests accepted per call before the model stops delivering them
MaxHandled == 8
\* handle requests of one call suspended at the await at the same time
MaxInflight == 2
\* listen rounds counted per call while Twilio follows the TwiML
MaxRounds == 7
\* handle requests accepted per call when two calls are driven together
MaxPairTurns == 2

(* ------------------------ program constants --------------------------- *)

MAX_TURNS == 6
\* call ids (CallSid); one call at a time is driven through the dialogue
CallIds == {"CA1", "CA2"}
SoloCalls == {"CA1"}

\* spoken lines
GREETING     == "Hi! Thank you for calling Cupo Dental, this is Ashley, how can I can help you?"
TIED_UP      == "The team is tied up. I can schedule you right now."
CLOSING      == "Thanks. I'll have the team call you back shortly. Goodbye."
ASK_BOTH     == "Tell me your name and the best day and time to come in."
ASK_NAME     == "What is your name?"
ASK_TIME     == "What day and time works best?"
ONE_MOMENT   == "One moment."
DIDNT_CATCH  == "I didn't catch that."
OKAY         == "Okay."
ALL_SET      == "You're all set. We'll text you to confirm. Goodbye."
APOLOGY      == "I apologize, but something went wrong. A team member will call you back shortly."
FALLBACK_SAY == "Thanks. What day and time works best for you?"

(* --------------------------- JSON values ------------------------------ *)

NoMembers == [k \in {} |-> 0]
JUndefined == [tag |-> "undefined", v |-> "", m |-> NoMembers]
JNull      == [tag |-> "null", v |-> "", m |-> NoMembers]
JStr(str)  == [tag |-> "str", v |-> str, m |-> NoMembers]
JObj(mem)  == [tag |-> "obj", v |-> "", m |-> mem]

\* JavaScript truthiness of a value: undefined, null and "" are falsy
Truthy(x) == \/ x.tag = "obj"
             \/ x.tag = "str" /\ x.v # ""

\* x.key for a value that is not null or undefined
GetProp(x, key) == IF x.tag = "obj" /\ key \in DOMAIN x.m THEN x.m[key] ELSE JUndefined

\* a || b
OrElse(a, b) == IF Truthy(a) THEN a ELSE b

(* ------------------------- token sequences ---------------------------- *)

Blank == " "
KeyTokens == {"say:", "extracted:", "name:", "preferred_time:"}
StrTokens == {"''", "'hi'", "'Dana'", "'Eve'", "'Tue'", "'Wed'"}

KeyOf(tok) == CASE tok = "say:" -> "say"
                [] tok = "extracted:" -> "extracted"
                [] tok = "name:" -> "name"
                [] tok = "preferred_time:" -> "preferred_time"

StrOf(tok) == CASE tok = "''" -> ""
                [] tok = "'hi'" -> "hi"
                [] tok = "'Dana'" -> "Dana"
                [] tok = "'Eve'" -> "Eve"
                [] tok = "'Tue'" -> "Tue"
                [] tok = "'Wed'" -> "Wed"

RECURSIVE TrimStart(_)
TrimStart(t) == IF t # <<>> /\ Head(t) = Blank THEN TrimStart(Tail(t)) ELSE t

RECURSIVE TrimEnd(_)
TrimEnd(t) == IF t # <<>> /\ t[Len(t)] = Blank THEN TrimEnd(SubSeq(t, 1, Len(t) - 1)) ELSE t

\* String.prototype.trim
Trim(t) == TrimEnd(TrimStart(t))

\* String.prototype.indexOf, 1-based; 0 when absent (the code's -1)
IndexOf(t, tok) == IF \E i \in 1..Len(t) : t[i] = tok
                   THEN CHOOSE i \in 1..Len(t) : t[i] = tok /\ \A j \in 1..(i - 1) : t[j] # tok
                   ELSE 0

\* String.prototype.lastIndexOf, 1-based; 0 when absent
LastIndexOf(t, tok) == IF \E i \in 1..Len(t) : t[i] = tok
                       THEN CHOOSE i \in 1..Len(t) : t[i] = tok /\ \A j \in (i + 1)..Len(t) : t[j] # tok
                       ELSE 0

\* text.slice(a, b + 1) with the 1-based positions a and b
Slice(t, a, b) == SubSeq(t, a, b)

(* ---------------------------- JSON.parse ------------------------------ *)

RECURSIVE SkipWs(_, _)
SkipWs(t, i) == IF i <= Len(t) /\ t[i] = Blank THEN SkipWs(t, i + 1) ELSE i

ParseFail == [ok |-> FALSE, val |-> JNull, next |-> 0]

PutMember(mem, key, val) == [k \in (DOMAIN mem) \cup {key} |-> IF k = key THEN val ELSE mem[k]]

RECURSIVE ParseValue(_, _), ParseMembers(_, _, _)
ParseValue(t, i) ==
  LET j == SkipWs(t, i) IN
  IF j > Len(t) THEN ParseFail
  ELSE IF t[j] = "null" THEN [ok |-> TRUE, val |-> JNull, next |-> j + 1]
  ELSE IF t[j] \in StrTokens THEN [ok |-> TRUE, val |-> JStr(StrOf(t[j])), next |-> j + 1]
  ELSE IF t[j] = "{" THEN ParseMembers(t, j + 1, NoMembers)
  ELSE ParseFail

ParseMembers(t, i, mem) ==
  LET j == SkipWs(t, i) IN
  IF j > Len(t) THEN ParseFail
  ELSE IF t[j] = "}" THEN [ok |-> TRUE, val |-> JObj(mem), next |-> j + 1]
  ELSE IF t[j] \in KeyTokens
       THEN LET r == ParseValue(t, j + 1) IN
            IF r.ok THEN ParseMembers(t, r.next, PutMember(mem, KeyOf(t[j]), r.val))
            ELSE ParseFail
  ELSE ParseFail

\* JSON.parse: a value, or a SyntaxError (ok = FALSE)
JSONParse(t) ==
  LET r == ParseValue(t, 1) IN
  IF r.ok /\ SkipWs(t, r.next) > Len(t) THEN [ok |-> TRUE, val |-> r.val] ELSE [ok |-> FALSE, val |-> JNull]

(* ---------------------------- agentReply ------------------------------ *)

\* the object returned by agentReply's catch block
Fallback == JObj([k \in {"say", "extracted"} |-> IF k = "say" THEN JStr(FALLBACK_SAY) ELSE JObj(NoMembers)])

\* what openai.responses.create does: it rejects (network error, timeout),
\* or resolves with output_text absent or holding a text
SvcThrow == [kind |-> "throw", text |-> <<>>]
SvcNoText == [kind |-> "notext", text |-> <<>>]
SvcText(t) == [kind |-> "text", text |-> t]

\* agentReply with a catch block that returns null
agentReplyNull(svc) ==
  IF svc.kind = "throw" THEN JNull
  ELSE LET text == Trim(IF svc.kind = "notext" THEN <<>> ELSE svc.text)
           a == IndexOf(text, "{")
           b == LastIndexOf(text, "}")
           raw == IF a # 0 /\ b # 0 THEN Slice(text, a, b) ELSE text
           parsed == JSONParse(raw)
       IN IF parsed.ok THEN parsed.val ELSE JNull

\* agentReply never rejects: its whole body is inside try/catch, so its
\* result is the value the returned promise resolves with
agentReply(svc) ==
  IF svc.kind = "throw" THEN Fallback
  ELSE LET text == Trim(IF svc.kind = "notext" THEN <<>> ELSE svc.text)
           a == IndexOf(text, "{")
           b == LastIndexOf(text, "}")
           raw == IF a # 0 /\ b # 0 THEN Slice(text, a, b) ELSE text
           parsed == JSONParse(raw)
       IN IF parsed.ok THEN parsed.val ELSE Fallback

(* --------------------------- session store ---------------------------- *)

\* the object s() stores on the first reference to a call: { turns: 0 };
\* the fields it leaves out are undefined (for booked and transferAttempted,
\* FALSE stands for undefined)
NewSession == [turns |-> 0, name |-> JUndefined, preferred_time |-> JUndefined, booked |-> FALSE,
               transferAttempted |-> FALSE]

\* s() without the has() test: every reference stores a fresh session
sReset(store, callSid) ==
  [k \in (DOMAIN store) \cup {callSid} |-> IF k = callSid THEN NewSession ELSE store[k]]

\* a store that keeps one session only: storing a new call drops the others
sSingle(store, callSid) ==
  IF callSid \in DOMAIN store THEN store
  ELSE [k \in {callSid} |-> NewSession]

\* the sessions Map after s(callSid)
s(store, callSid) ==
  IF callSid \in DOMAIN store THEN store
  ELSE [k \in (DOMAIN store) \cup {callSid} |-> IF k = callSid THEN NewSession ELSE store[k]]

(* ------------------------------- state -------------------------------- *)

VARIABLES
  transferNumber,  \* OFFICE_TRANSFER_NUMBER is configured
  sessions,        \* the sessions Map: CallSid -> session
  inflight,        \* per call, the /voice/handle requests suspended at await agentReply
  phase,           \* per call, the webhook Twilio sends next when it follows the TwiML returned so far
  ev,              \* the handler step taken last: its request and the response it sent
  svcIn,           \* the outcome of the service call in the last agentReply
  ret,             \* the value the last agentReply returned
  rounds,          \* per call, the <Gather>s returned so far while Twilio follows the TwiML
  armed,           \* per call, whether a <Gather> returned by /voice/gather awaits its /voice/handle
  serial           \* the Map of the same requests run one at a time, each /voice/handle whole when it answers

vars == <<transferNumber, sessions, inflight, phase, ev, svcIn, ret, rounds, armed, serial>>

\* SpeechResult: absent from the body, or a string of blanks and letters
SpeechChars == {Blank, "a"}
RECURSIVE SeqsUpTo(_, _)
SeqsUpTo(S, n) == IF n = 0 THEN {<<>>}
                  ELSE LET shorter == SeqsUpTo(S, n - 1) IN
                       shorter \cup {Append(t, x) : t \in {u \in shorter : Len(u) = n - 1}, x \in S}
SpeechResults == {[present |-> FALSE, chars |-> <<>>]}
                 \cup {[present |-> TRUE, chars |-> t] : t \in SeqsUpTo(SpeechChars, MaxSpeechLen)}

\* DialCallStatus values Twilio reports, and a request without one
DialStatuses == {"completed", "no-answer", "busy", "failed", "canceled", "absent"}

\* replies of the extraction service used in the dialogue
FullReply(n, t) == <<"{", "say:", "'hi'", "extracted:", "{", "name:", n, "preferred_time:", t, "}", "}">>
SampleReplies ==
  {FullReply(n, t) : n \in {"null", "''", "'Dana'", "'Eve'"}, t \in {"null", "''", "'Tue'", "'Wed'"}}
  \cup { <<"w">>, <<"null">>, <<"{", "}">>, <<"{", "say:", "'hi'">>,
         <<"w", "{", "say:", "'hi'", "}", "w">>,
         <<"{", "extracted:", "{", "name:", "'Dana'", "}", "}">>,
         <<"{", "extracted:", "{", "name:", "'Dana'", "preferred_time:", "'Tue'", "}", "}">> }
ServiceOutcomes == {SvcThrow, SvcNoText} \cup {SvcText(t) : t \in SampleReplies}

\* a response: HTTP status, the <Say> lines in order, and the verb that ends the TwiML
Response(status, say, next) == [status |-> status, say |-> say, next |-> next]

\* input: the class of SpeechResult ("empty", "text") or the DialCallStatus;
\* invoked: the step called agentReply; sent: the step sent a response
Event(hook, call, input, invoked, sent, resp) ==
  [hook |-> hook, call |-> call, input |-> input, invoked |-> invoked, sent |-> sent,
   status |-> resp.status, say |-> resp.say, next |-> resp.next]

NoResponse == Response(0, <<>>, "none")

\* the webhook Twilio sends after a response, when it follows the TwiML
PhaseAfter(resp) == CASE resp.next = "transfer" -> "dialing"
                      [] resp.next = "redirect" -> "gather"
                      [] resp.next = "listen" -> "listen"
                      [] OTHER -> "ended"

\* a webhook Twilio would not send at this point leaves the protocol for good
Follow(c, expected, resp) ==
  [phase EXCEPT ![c] = IF phase[c] \in expected THEN PhaseAfter(resp) ELSE "off"]

\* the listen rounds are counted as long as the call stays on the protocol
Counted(c, newPhase, listens) ==
  [rounds EXCEPT ![c] = IF newPhase[c] = "off" THEN 0 ELSE @ + (IF listens THEN 1 ELSE 0)]

\* a <Gather> is answered by at most one /voice/handle request, and by none
\* while another one of the call is suspended; a request that is not such an
\* answer is remembered as "broken"
Answered(c) ==
  [armed EXCEPT ![c] = IF @ = "open" /\ inflight[c] = 0 THEN "none" ELSE "broken"]

Listening(c, listens) ==
  [armed EXCEPT ![c] = IF listens /\ @ # "broken" THEN "open" ELSE @]

\* the one-at-a-time run starts like the program, with an empty Map
SerialStart == [k \in {} |-> NewSession]

\* a webhook other than /voice/handle, run in the one-at-a-time order: s(callSid)
SerialLookup(c) == s(serial, c)

Init ==
  /\ transferNumber \in BOOLEAN
  /\ rounds = [c \in CallIds |-> 0]
  /\ armed = [c \in CallIds |-> "none"]
  /\ serial = SerialStart
  /\ sessions = [k \in {} |-> NewSession]
  /\ inflight = [c \in CallIds |-> 0]
  /\ phase = [c \in CallIds |-> "new"]
  /\ ev = Event("start", "", "n/a", FALSE, FALSE, NoResponse)
  /\ svcIn = SvcThrow
  /\ ret = JUndefined

(* ------------------------------ webhooks ------------------------------ *)

\* POST /voice/initial
InitialResponse(hasNumber) ==
  IF hasNumber THEN Response(200, <<>>, "transfer")
  ELSE Response(500, <<>>, "none")   \* twiml.saytwiml is undefined: TypeError, Express answers 500

VoiceInitial(c) ==
  LET resp == InitialResponse(transferNumber) IN
  /\ sessions' = s(sessions, c)
  /\ ev' = Event("initial", c, "n/a", FALSE, TRUE, resp)
  /\ phase' = Follow(c, {"new"}, resp)
  /\ rounds' = Counted(c, phase', FALSE)
  /\ serial' = SerialLookup(c)
  /\ UNCHANGED <<transferNumber, inflight, svcIn, ret, armed>>

\* POST /voice/after-transfer-attempt
\* the status test against 'answered', a value Twilio never reports
AfterTransferResponseAnswered(status) ==
  IF status = "answered" THEN Response(200, <<>>, "hangup")
  ELSE Response(200, <<TIED_UP>>, "redirect")

AfterTransferResponse(status) ==
  IF status = "completed" THEN Response(200, <<>>, "hangup")
  ELSE Response(200, <<TIED_UP>>, "redirect")

AfterTransferAttempt(c, status) ==
  LET resp == AfterTransferResponse(status) IN
  /\ ev' = Event("after-transfer-attempt", c, status, FALSE, TRUE, resp)
  /\ phase' = Follow(c, {"dialing"}, resp)
  /\ rounds' = Counted(c, phase', FALSE)
  /\ UNCHANGED <<transferNumber, sessions, inflight, svcIn, ret, armed, serial>>

\* POST /voice/gather
GatherPrompt(session) ==
  IF ~Truthy(session.name) /\ ~Truthy(session.preferred_time) THEN ASK_BOTH
  ELSE IF ~Truthy(session.name) THEN ASK_NAME
  ELSE IF ~Truthy(session.preferred_time) THEN ASK_TIME
  ELSE ONE_MOMENT

\* the budget test with > in place of >=
GatherResponseOffByOne(session) ==
  IF session.turns > MAX_TURNS THEN Response(200, <<CLOSING>>, "hangup")
  ELSE Response(200, <<GatherPrompt(session)>>, "listen")

GatherResponse(session) ==
  IF session.turns >= MAX_TURNS THEN Response(200, <<CLOSING>>, "hangup")
  ELSE Response(200, <<GatherPrompt(session)>>, "listen")

VoiceGather(c) ==
  LET store == s(sessions, c)
      resp == GatherResponse(store[c])
  IN /\ rounds[c] < MaxRounds
     /\ sessions' = store
     /\ ev' = Event("gather", c, "n/a", FALSE, TRUE, resp)
     /\ phase' = Follow(c, {"gather", "listen"}, resp)
     /\ rounds' = Counted(c, phase', resp.next = "listen")
     /\ armed' = Listening(c, resp.next = "listen")
     /\ serial' = SerialLookup(c)
     /\ UNCHANGED <<transferNumber, inflight, svcIn, ret>>

\* POST /voice/handle, up to the await: speech = (SpeechResult || "").trim()
SpeechOf(sr) == Trim(IF sr.present THEN sr.chars ELSE <<>>)

\* session.turns += 1
CountTurn(session) == [session EXCEPT !.turns = @ + 1]

EmptySpeechResponse == Response(200, <<DIDNT_CATCH>>, "redirect")

\* the merge with the two fields crossed
MergeExtractedSwapped(session, ex) ==
  LET n == GetProp(ex, "name")
      t == GetProp(ex, "preferred_time")
  IN [session EXCEPT !.name = IF Truthy(t) THEN t ELSE @,
                     !.preferred_time = IF Truthy(n) THEN n ELSE @]

\* POST /voice/handle, after the await: the merge of cmd.extracted
MergeExtracted(session, ex) ==
  LET n == GetProp(ex, "name")
      t == GetProp(ex, "preferred_time")
  IN [session EXCEPT !.name = IF Truthy(n) THEN n ELSE @,
                     !.preferred_time = IF Truthy(t) THEN t ELSE @]

\* the booked test with || in place of &&
MarkBookedEither(session) ==
  IF Truthy(session.name) \/ Truthy(session.preferred_time)
  THEN [session EXCEPT !.booked = TRUE] ELSE session

\* the handler without the booked assignment
MarkBookedNever(session) == session

\* if (session.name && session.preferred_time) session.booked = true
MarkBooked(session) ==
  IF Truthy(session.name) /\ Truthy(session.preferred_time)
  THEN [session EXCEPT !.booked = TRUE] ELSE session

\* the text of twiml.say(x): a string is spoken, anything else leaves the <Say> empty
SayText(x) == IF x.tag = "str" THEN x.v ELSE ""

\* the booked branch without twiml.hangup(): it redirects like the other branch
ReplyResponseNoHangup(session, cmd) ==
  LET line == SayText(OrElse(GetProp(cmd, "say"), JStr(OKAY))) IN
  IF session.booked THEN Response(200, <<line, ALL_SET>>, "redirect")
  ELSE Response(200, <<line>>, "redirect")

ReplyResponse(session, cmd) ==
  LET line == SayText(OrElse(GetProp(cmd, "say"), JStr(OKAY))) IN
  IF session.booked THEN Response(200, <<line, ALL_SET>>, "hangup")
  ELSE Response(200, <<line>>, "redirect")

\* the handler without its try/catch: the rejection leaves the request unanswered
CatchResponseNone == NoResponse

\* the catch block of the handler
CatchResponse == Response(200, <<APOLOGY>>, "hangup")

\* reading a property of null or undefined throws a TypeError
Throws(cmd) == cmd.tag \in {"null", "undefined"}

\* agentReply's result for each service outcome of the dialogue
AgentResults == [o \in ServiceOutcomes |-> agentReply(o)]

\* POST /voice/handle run from its first line to its response with no other
\* request between its two halves: the Map it leaves and the response it sends
HandleWhole(store0, c, empty, cmd) ==
  LET store == s(store0, c)
      counted == CountTurn(store[c])
      fails == ~empty /\ Throws(cmd)
      ex == IF empty \/ fails THEN JObj(NoMembers) ELSE OrElse(GetProp(cmd, "extracted"), JObj(NoMembers))
      after == IF empty \/ fails THEN counted ELSE MarkBooked(MergeExtracted(counted, ex))
      resp == IF empty THEN EmptySpeechResponse
              ELSE IF fails THEN CatchResponse
              ELSE ReplyResponse(after, cmd)
  IN [sessions |-> [store EXCEPT ![c] = after], resp |-> resp]

\* the one-at-a-time run takes a /voice/handle request whole when it answers
Serialized(c, empty, cmd) ==
  HandleWhole(serial, c, empty, cmd).sessions

HandleBegin(c, sr) ==
  LET store == s(sessions, c)
      speech == SpeechOf(sr)
      counted == [store EXCEPT ![c] = CountTurn(store[c])]
  IN /\ store[c].turns < MaxHandled
     /\ inflight[c] < MaxInflight
     /\ sessions' = counted
     /\ IF speech = <<>>
        THEN /\ ev' = Event("handle", c, "empty", FALSE, TRUE, EmptySpeechResponse)
             /\ phase' = Follow(c, {"listen"}, EmptySpeechResponse)
             /\ serial' = Serialized(c, TRUE, JNull)
             /\ UNCHANGED inflight
        ELSE /\ ev' = Event("handle", c, "text", TRUE, FALSE, NoResponse)
             /\ phase' = [phase EXCEPT ![c] = IF phase[c] = "listen" THEN "handling" ELSE "off"]
             /\ inflight' = [inflight EXCEPT ![c] = @ + 1]
             /\ UNCHANGED serial
     /\ rounds' = Counted(c, phase', FALSE)
     /\ armed' = Answered(c)
     /\ UNCHANGED <<transferNumber, svcIn, ret>>

\* the handler keeps a copy of the session taken before the await, when the
\* requests suspended with it had not counted their turns yet
HeldStale(store, c) == [store[c] EXCEPT !.turns = @ - (inflight[c] - 1)]

\* const session = s(callSid): after the await the handler holds the Map's own object
Held(store, c) == store[c]

HandleResume(c, svc) ==
  LET cmd == AgentResults[svc]
      ex == IF Throws(cmd) THEN JObj(NoMembers) ELSE OrElse(GetProp(cmd, "extracted"), JObj(NoMembers))
      after == IF Throws(cmd) THEN Held(sessions, c) ELSE MarkBooked(MergeExtracted(Held(sessions, c), ex))
      resp == IF Throws(cmd) THEN CatchResponse ELSE ReplyResponse(after, cmd)
  IN /\ inflight[c] > 0
     /\ inflight' = [inflight EXCEPT ![c] = @ - 1]
     /\ sessions' = [sessions EXCEPT ![c] = after]
     /\ ev' = Event("handle", c, "text", FALSE, TRUE, resp)
     /\ phase' = Follow(c, {"handling"}, resp)
     /\ svcIn' = svc
     /\ ret' = cmd
     /\ rounds' = Counted(c, phase', FALSE)
     /\ serial' = Serialized(c, FALSE, cmd)
     /\ UNCHANGED <<transferNumber, armed>>

Next ==
  \/ \E c \in SoloCalls : VoiceInitial(c)
  \/ \E c \in SoloCalls, status \in DialStatuses : AfterTransferAttempt(c, status)
  \/ \E c \in SoloCalls : VoiceGather(c)
  \/ \E c \in SoloCalls, sr \in SpeechResults : HandleBegin(c, sr)
  \/ \E c \in SoloCalls, svc \in ServiceOutcomes : HandleResume(c, svc)

Spec == Init /\ [][Next]_vars

(* --------------------------- two calls at once ------------------------ *)

PairSpeech == {[present |-> FALSE, chars |-> <<>>], [present |-> TRUE, chars |-> <<"a">>]}
PairStatuses == {"completed", "no-answer"}
PairOutcomes == {SvcThrow, SvcText(<<"null">>),
                 SvcText(FullReply("'Dana'", "null")), SvcText(FullReply("null", "'Tue'"))}

PairNext ==
  \/ \E c \in CallIds : VoiceInitial(c)
  \/ \E c \in CallIds, status \in PairStatuses : AfterTransferAttempt(c, status)
  \/ \E c \in CallIds : VoiceGather(c)
  \/ \E c \in CallIds, sr \in PairSpeech :
       (IF c \in DOMAIN sessions THEN sessions[c].turns ELSE 0) < MaxPairTurns /\ HandleBegin(c, sr)
  \/ \E c \in CallIds, svc \in PairOutcomes : HandleResume(c, svc)

SpecPair == Init /\ [][PairNext]_vars

(* ------------------------- agentReply on its own ---------------------- *)

ReplyTokens == {Blank, "w", "{", "}", "null", "say:", "extracted:", "name:", "'hi'", "'Dana'", "''"}

AgentInputs == ServiceOutcomes \cup {SvcText(t) : t \in SeqsUpTo(ReplyTokens, MaxReplyLen)}

AgentInit ==
  /\ transferNumber = FALSE
  /\ sessions = [k \in {} |-> NewSession]
  /\ inflight = [c \in CallIds |-> 0]
  /\ phase = [c \in CallIds |-> "new"]
  /\ ev = Event("start", "", "n/a", FALSE, FALSE, NoResponse)
  /\ svcIn \in AgentInputs
  /\ ret = JUndefined
  /\ rounds = [c \in CallIds |-> 0]
  /\ armed = [c \in CallIds |-> "none"]
  /\ serial = SerialStart

AgentCall ==
  /\ ev.hook = "start"
  /\ ev' = Event("agentReply", "", "n/a", TRUE, FALSE, NoResponse)
  /\ ret' = agentReply(svcIn)
  /\ UNCHANGED <<transferNumber, sessions, inflight, phase, svcIn, rounds, armed, serial>>

AgentNext == AgentCall

SpecAgent == AgentInit /\ [][AgentNext]_vars

(* ------------------------------- claims ------------------------------- *)

TurnsOf(store, c) == IF c \in DOMAIN store THEN store[c].turns ELSE 0

\* the step just taken is the part of /voice/handle after the await, for call c
Resumed(c) == ev'.hook = "handle" /\ ev'.call = c /\ ev'.sent /\ ev'.input = "text"

\* the step just taken is the part of /voice/handle up to the await (or up to
\* the empty-speech return), for call c: the only step that counts a turn
Began(c) == ev'.hook = "handle" /\ ev'.call = c /\ TurnsOf(sessions', c) # TurnsOf(sessions, c)

\* C1 (as claimed): first-write-wins - once session.name (session.preferred_time)
\* is non-empty, no later extraction result changes it.
C1_FirstWriteWins ==
  [][\A c \in DOMAIN sessions :
       /\ Truthy(sessions[c].name) => sessions'[c].name = sessions[c].name
       /\ Truthy(sessions[c].preferred_time) => sessions'[c].preferred_time = sessions[c].preferred_time]_vars

\* C2 (as claimed): a /voice/gather or /voice/handle turn processed for a session
\* whose turn count is already >= MAX_TURNS answers with the closing line and
\* hang up, and does not invoke agentReply.
C2_TurnBudget ==
  [][\A c \in CallIds :
       (/\ TurnsOf(sessions, c) >= MAX_TURNS
        /\ ev'.call = c
        /\ (ev'.hook = "gather" \/ Began(c)))
       => (ev'.say = <<CLOSING>> /\ ev'.next = "hangup" /\ ~ev'.invoked)]_vars

\* C3 (as claimed): every webhook that completes sends a well-formed response:
\* a non-empty list of spoken lines and one valid next action.
C3_AlwaysRespond ==
  ev.sent => /\ ev.status = 200
             /\ ev.say # <<>>
             /\ ev.next \in {"listen", "redirect", "transfer", "hangup"}

\* C4 (as claimed): an empty or whitespace-only SpeechResult leaves the turn
\* count, name, preferred_time and booked unchanged, does not invoke agentReply,
\* and answers "didn't catch that" followed by a redirect to /voice/gather.
C4_EmptyUtterance ==
  [][\A c \in CallIds :
       (ev'.hook = "handle" /\ ev'.call = c /\ ev'.input = "empty")
       => /\ TurnsOf(sessions', c) = TurnsOf(sessions, c)
          /\ ~ev'.invoked
          /\ c \in DOMAIN sessions => sessions'[c] = sessions[c]
          /\ ev'.say = <<DIDNT_CATCH>> /\ ev'.next = "redirect"]_vars

\* C5: session.booked never goes back from booked to not-booked (so it
\* changes from not-booked to booked at most once per call).
C5_BookedMonotonic ==
  [][\A c \in DOMAIN sessions : sessions[c].booked => (c \in DOMAIN sessions' /\ sessions'[c].booked)]_vars

\* a booked session has gone through a later speech turn that failed
C5_Witness ==
  \E c \in DOMAIN sessions :
    sessions[c].booked /\ ev.hook = "handle" /\ ev.call = c /\ ev.say = <<APOLOGY>>

BothSet(session) == Truthy(session.name) /\ Truthy(session.preferred_time)

\* C6: booked implies that name and preferred_time are both non-empty, and
\* when a speech turn has sent its response booked is true exactly when both
\* fields are non-empty.
C6_BookedIffFields ==
  \A c \in DOMAIN sessions :
    /\ sessions[c].booked => BothSet(sessions[c])
    /\ (ev.hook = "handle" /\ ev.call = c /\ ev.sent) => (sessions[c].booked <=> BothSet(sessions[c]))

\* a speech turn has ended with both fields collected, one after the other
C6_Witness ==
  \E c \in DOMAIN sessions :
    /\ ev.hook = "handle" /\ ev.call = c /\ ev.sent /\ ev.input = "text"
    /\ sessions[c].booked /\ BothSet(sessions[c]) /\ sessions[c].turns = 2 /\ inflight[c] = 0
    /\ ~Truthy(GetProp(GetProp(ret, "extracted"), "name"))

\* the failure modes of the extraction service named by the claim
FailureMode(svc) ==
  \/ svc.kind \in {"throw", "notext"}
  \/ LET text == Trim(svc.text)
         a == IndexOf(text, "{")
         b == LastIndexOf(text, "}")
         parsed == JSONParse(Slice(text, a, b))
     IN \/ text = <<>>
        \/ a = 0 \/ b = 0
        \/ ~parsed.ok
        \/ ~Truthy(GetProp(parsed.val, "say"))

\* C7 (as claimed): for each failure mode - network error or timeout, empty
\* reply, reply without braces, unparseable JSON, JSON without 'say' -
\* agentReply returns the fixed fallback result.
C7_FallbackSafety ==
  (ev.hook = "agentReply" /\ FailureMode(svcIn)) => ret = Fallback

\* C8: a speech turn whose merge leaves both fields set on a session that was
\* not booked sets booked, says the extraction utterance and then the
\* "all set" line, and hangs up.
C8_Completion ==
  [][\A c \in DOMAIN sessions :
       (Resumed(c) /\ ~sessions[c].booked /\ BothSet(sessions'[c]))
       => /\ sessions'[c].booked
          /\ ev'.say = <<SayText(OrElse(GetProp(ret', "say"), JStr(OKAY))), ALL_SET>>
          /\ ev'.next = "hangup"]_vars

\* the first speech turn of a call carried both fields and booked it
C8_Witness ==
  \E c \in DOMAIN sessions :
    /\ ev.hook = "handle" /\ ev.call = c /\ ev.sent /\ ev.next = "hangup"
    /\ sessions[c].turns = 1 /\ sessions[c].booked
    /\ Truthy(GetProp(GetProp(ret, "extracted"), "name"))
    /\ Truthy(GetProp(GetProp(ret, "extracted"), "preferred_time"))

\* C9 (as claimed): the turn count starts at 0, never decreases, and grows by
\* one exactly in the /voice/handle requests that carry non-empty speech.
C9_TurnCounting ==
  [][\A c \in CallIds :
       TurnsOf(sessions', c) =
         TurnsOf(sessions, c) + (IF ev'.hook = "handle" /\ ev'.call = c /\ ev'.input = "text" /\ ev'.invoked
                                 THEN 1 ELSE 0)]_vars

\* C10: /voice/after-transfer-attempt answers 'completed' with a bare hang up,
\* after which Twilio sends nothing more for the call, and any other status
\* with the "tied up" line and a redirect to /voice/gather; the sessions are
\* not touched.
C10_TransferOutcome ==
  [][\A c \in CallIds :
       (ev'.hook = "after-transfer-attempt" /\ ev'.call = c)
       => /\ sessions' = sessions
          /\ IF ev'.input = "completed"
             THEN ev'.say = <<>> /\ ev'.next = "hangup" /\ phase'[c] \in {"ended", "off"}
             ELSE ev'.say = <<TIED_UP>> /\ ev'.next = "redirect" /\ phase'[c] \in {"gather", "off"}]_vars

\* the transfer was not answered and the call goes on to the dialogue
C10_Witness ==
  /\ ev.hook = "after-transfer-attempt" /\ ev.input = "no-answer"
  /\ ev.say = <<TIED_UP>> /\ phase[ev.call] = "gather"

\* C11 (as claimed): while Twilio follows the TwiML it is given, a call is
\* hung up after at most MAX_TURNS listen rounds, whatever the caller says or
\* does not say.
C11_BoundedDialogue ==
  \A c \in CallIds : phase[c] # "off" => rounds[c] <= MAX_TURNS

\* the default state of a session
DefaultState(session) ==
  /\ session.turns = 0
  /\ ~Truthy(session.name) /\ ~Truthy(session.preferred_time)
  /\ ~session.booked /\ ~session.transferAttempted

\* C12: a webhook that calls s() leaves a session for its call in the store:
\* a session in the default state on the first reference, the session that
\* was there, with no field reset, on a later one; no session is ever removed
\* and none is added for another call id.
C12_SessionStore ==
  [][LET c == ev'.call IN
     /\ DOMAIN sessions \subseteq DOMAIN sessions'
     /\ DOMAIN sessions' \subseteq (DOMAIN sessions) \cup {c}
     /\ ev'.hook \in {"initial", "gather", "handle"} => c \in DOMAIN sessions'
     /\ (ev'.hook \in {"initial", "gather"} /\ c \in DOMAIN sessions) => sessions'[c] = sessions[c]
     /\ (ev'.hook \in {"initial", "gather"} /\ c \notin DOMAIN sessions) => DefaultState(sessions'[c])
     /\ (ev'.hook = "handle" /\ c \notin DOMAIN sessions)
          => (sessions'[c].turns = 1 /\ DefaultState([sessions'[c] EXCEPT !.turns = 0]))]_vars

\* both calls have a session, and a later /voice/gather found the session of
\* its call with the turns counted so far
C12_Witness ==
  /\ DOMAIN sessions = CallIds
  /\ ev.hook = "gather" /\ sessions[ev.call].turns = 2
  /\ Truthy(sessions[ev.call].name)

\* C13: a speech turn in which agentReply yields a value whose fields cannot
\* be read still answers, with the apology line followed by hang up.
C13_ErrorTerminates ==
  [][\A c \in DOMAIN sessions :
       (Resumed(c) /\ Throws(ret'))
       => (ev'.status = 200 /\ ev'.say = <<APOLOGY>> /\ ev'.next = "hangup")]_vars

\* a speech turn got null from agentReply and was answered
C13_Witness ==
  ev.hook = "handle" /\ ev.sent /\ ret = JNull /\ ev.say = <<APOLOGY>> /\ ev.next = "hangup"

\* C14 (as claimed): /voice/initial answers with a transfer and no prompt when
\* OFFICE_TRANSFER_NUMBER is configured, and sets transferAttempted; otherwise
\* it answers with a greeting followed by a redirect to /voice/gather.
C14_Initiation ==
  [][\A c \in CallIds :
       (ev'.hook = "initial" /\ ev'.call = c)
       => IF transferNumber
          THEN ev'.say = <<>> /\ ev'.next = "transfer" /\ sessions'[c].transferAttempted
          ELSE ev'.say = <<GREETING>> /\ ev'.next = "redirect"]_vars

\* C15 (as claimed): a speech turn that leaves a field missing ends with
\* listen, and the prompt of /voice/gather below the budget is the one for
\* the fields that are missing.
C15_PromptSelection ==
  /\ (ev.hook = "handle" /\ ev.sent /\ ~BothSet(sessions[ev.call])) => ev.next = "redirect"
  /\ (ev.hook = "gather" /\ ev.next = "listen")
       => LET n == Truthy(sessions[ev.call].name)
              t == Truthy(sessions[ev.call].preferred_time)
          IN /\ ev.say = <<ASK_BOTH>> <=> (~n /\ ~t)
             /\ ev.say = <<ASK_NAME>> <=> (~n /\ t)
             /\ ev.say = <<ASK_TIME>> <=> (n /\ ~t)

\* the extraction call fails: the service call rejects (network error,
\* timeout), or its reply is empty or cannot be parsed
ExtractionFails(svc) ==
  \/ svc.kind \in {"throw", "notext"}
  \/ LET text == Trim(svc.text)
         a == IndexOf(text, "{")
         b == LastIndexOf(text, "}")
     IN \/ text = <<>>
        \/ ~JSONParse(IF a # 0 /\ b # 0 THEN Slice(text, a, b) ELSE text).ok

\* C16: a speech turn whose extraction call fails leaves the session as it
\* was, speaks the fallback utterance, and ends with a redirect to
\* /voice/gather unless the session was already booked.
C16_FailureRecovered ==
  [][\A c \in DOMAIN sessions :
       (Resumed(c) /\ ExtractionFails(svcIn'))
       => /\ sessions'[c] = sessions[c]
          /\ IF sessions[c].booked
             THEN ev'.say = <<FALLBACK_SAY, ALL_SET>> /\ ev'.next = "hangup"
             ELSE ev'.say = <<FALLBACK_SAY>> /\ ev'.next = "redirect"]_vars

\* a timeout hit a call that had its name collected, and the dialogue goes on
C16_Witness ==
  /\ ev.hook = "handle" /\ ev.sent /\ svcIn = SvcThrow
  /\ ev.say = <<FALLBACK_SAY>> /\ ev.next = "redirect"
  /\ Truthy(sessions[ev.call].name)

\* the service reply carries the string value val under the key token key
Reported(svc, key, val) ==
  /\ svc.kind = "text"
  /\ \E i \in 1..(Len(svc.text) - 1) :
       svc.text[i] = key /\ svc.text[i + 1] \in StrTokens /\ JStr(StrOf(svc.text[i + 1])) = val

\* C17: session.name (session.preferred_time) only ever changes to the value
\* the extraction service reported under 'name' ('preferred_time') in that
\* turn of the same call; a new session has neither.
C17_NoInventedValues ==
  [][/\ \A c \in DOMAIN sessions :
          /\ sessions'[c].name # sessions[c].name
               => (Resumed(c) /\ Reported(svcIn', "name:", sessions'[c].name))
          /\ sessions'[c].preferred_time # sessions[c].preferred_time
               => (Resumed(c) /\ Reported(svcIn', "preferred_time:", sessions'[c].preferred_time))
     /\ \A c \in (DOMAIN sessions') \ (DOMAIN sessions) :
          ~Truthy(sessions'[c].name) /\ ~Truthy(sessions'[c].preferred_time)]_vars

\* a turn stored the name the service reported and left preferred_time alone
C17_Witness ==
  /\ ev.hook = "handle" /\ ev.sent
  /\ sessions[ev.call].name = JStr("Eve") /\ Reported(svcIn, "name:", JStr("Eve"))
  /\ sessions[ev.call].preferred_time = JStr("Tue") /\ ~Reported(svcIn, "preferred_time:", JStr("Tue"))

\* C18: while Twilio follows the TwiML and sends nothing after a hang up,
\* /voice/gather never runs with both fields set, so it never says "One moment."
C18_OneMomentUnreachable ==
  (ev.hook = "gather" /\ phase[ev.call] # "off")
  => (~BothSet(sessions[ev.call]) /\ ev.say # <<ONE_MOMENT>>)

\* /voice/gather ran on the protocol after a turn that collected the name
C18_Witness ==
  /\ ev.hook = "gather" /\ phase[ev.call] = "listen"
  /\ Truthy(sessions[ev.call].name) /\ ev.say = <<ASK_TIME>>

\* C19: a webhook of one call leaves the session, the suspended requests and
\* the protocol state of every other call as they were, and /voice/gather
\* answers from the session of its own call.
C19_Isolation ==
  [][/\ \A k \in CallIds \ {ev'.call} :
          /\ k \in DOMAIN sessions' <=> k \in DOMAIN sessions
          /\ k \in DOMAIN sessions => sessions'[k] = sessions[k]
          /\ inflight'[k] = inflight[k] /\ phase'[k] = phase[k]
          /\ rounds'[k] = rounds[k] /\ armed'[k] = armed[k]
     /\ ev'.hook = "gather"
          => (/\ ev'.say = GatherResponse(IF ev'.call \in DOMAIN sessions
                                          THEN sessions[ev'.call] ELSE NewSession).say
              /\ TurnsOf(sessions', ev'.call) = TurnsOf(sessions, ev'.call))]_vars

\* a turn of one call was answered while an extraction call of the other call
\* was in flight, and only the first call has a name
C19_Witness ==
  \E c \in CallIds, k \in CallIds :
    /\ c # k /\ ev.hook = "handle" /\ ev.call = c /\ ev.sent /\ ev.input = "text"
    /\ inflight[k] = 1 /\ k \in DOMAIN sessions
    /\ Truthy(sessions[c].name) /\ ~Truthy(sessions[k].name)

\* C20: as long as every /voice/handle request of a call answers a <Gather>
\* returned by /voice/gather, one at a time, the turn count of the call stays
\* within MAX_TURNS; agentReply is only called in a step that counts a turn,
\* so it is called at most MAX_TURNS times.
C20_BudgetBound ==
  /\ [](\A c \in CallIds : armed[c] # "broken" => TurnsOf(sessions, c) <= MAX_TURNS)
  /\ [][\A c \in CallIds :
          (ev'.invoked /\ ev'.call = c) => TurnsOf(sessions', c) = TurnsOf(sessions, c) + 1]_vars

\* the last turn of the budget called agentReply
C20_Witness ==
  \E c \in DOMAIN sessions :
    /\ armed[c] # "broken" /\ sessions[c].turns = MAX_TURNS
    /\ ev.hook = "handle" /\ ev.call = c /\ ev.invoked

\* C21: /voice/handle requests of one call that are suspended at the await
\* together are serializable: whatever the interleaving of their steps, each
\* request that answers sends the response it sends when the requests run
\* whole, one at a time, in the order in which they answer, and the session
\* is at every step the session of that run with one more turn for each
\* request still suspended, so that no turn is lost and the final session is
\* the one the serial run leaves; and at every step booked implies both fields.
C21_Serializable ==
  /\ [](\A c \in DOMAIN sessions :
          /\ sessions[c] = [s(serial, c)[c] EXCEPT !.turns = @ + inflight[c]]
          /\ inflight[c] = 0 => c \in DOMAIN serial /\ sessions[c] = serial[c]
          /\ sessions[c].booked => BothSet(sessions[c]))
  /\ [][\A c \in CallIds :
          Resumed(c) =>
             Response(ev'.status, ev'.say, ev'.next) = HandleWhole(serial, c, FALSE, ret').resp]_vars

\* two requests of the call were suspended at the await together, and the
\* first of them to answer has set both fields and ended the call
C21_Witness ==
  \E c \in DOMAIN sessions :
    /\ inflight[c] = 1 /\ sessions[c].turns = 2 /\ sessions[c].booked
    /\ ev.hook = "handle" /\ ev.call = c /\ ev.sent /\ ev.input = "text"

====
